---- MODULE Spec2Model ----
(***************************************************************************)
(* Model of two fragments of the repository:                               *)
(*   - projects/32-web3-plugin-polkadot/src/polkadot-plugin.ts             *)
(*       PolkadotPlugin: createRpcMethods, the constructor and the arrow   *)
(*       functions it stores in the namespace tables;                      *)
(*   - projects/03-inscribe/src/Inscribe-app/src/utils/index.ts            *)
(*       isLoggedIn.                                                       *)
(* JavaScript values are tagged tuples: <<"string", s>>, <<"undefined">>,  *)
(* <<"promise", n>>.  A plain object is a function whose DOMAIN is the set *)
(* of its own keys.  An arrow function is the record of the bindings it    *)
(* closes over.                                                            *)
(***************************************************************************)
EXTENDS Integers, Sequences, FiniteSets, TLC

\* ---------------------------------------------------------------- bounds
MaxLen == 2        \* longest endpoint sequence of a catalog namespace
MaxCalls == 2      \* invocations of built callables in one behaviour

\* ---------------------------------------------------------------- values
Undefined == <<"undefined">>
Str(s) == <<"string", s>>
Promise(n) == <<"promise", n>>

Namespaces == {"chain", "state"}
EndpointNames == {"getBlock", "getBlockHash"}
Args == {Str("0xhash"), Undefined}

Networks == {"polkadot", "kusama", "substrate"}
NetworkOrder == <<"polkadot", "kusama", "substrate">>

NoTable == <<"unassigned">>

VARIABLES
  RpcList,      \* network -> catalog: namespace -> sequence of endpoint names
  SupportedRpcMethods, \* network -> array of supported method identifiers
  pc,           \* number of tables the constructor has assigned so far
  table,        \* network -> namespace table (NoTable while unassigned)
  sent,         \* requests received by requestManager.send, in order
  invoked,      \* caller side: which callable was invoked and what it returned
  localStorage, \* window.localStorage: key -> stored string
  lastLogin     \* <<>>, or the last isLoggedIn call: input, store read, result

vars == <<RpcList, SupportedRpcMethods, pc, table, sent, invoked,
          localStorage, lastLogin>>
pluginVars == <<RpcList, SupportedRpcMethods, pc, table, sent, invoked>>
loginVars == <<localStorage, lastLogin>>

\* ------------------------------------------------------- plain JS helpers
RECURSIVE SetToSeq(_)
SetToSeq(S) ==
  IF S = {} THEN <<>>
  ELSE LET x == CHOOSE y \in S : TRUE IN <<x>> \o SetToSeq(S \ {x})

\* Object.keys(o): the own keys of o as an array
ObjectKeys(o) == SetToSeq(DOMAIN o)

\* variant: an existing key keeps its first value (o[k] ??= v)
SetPropertyKeepFirst(o, k, v) ==
  [x \in (DOMAIN o) \cup {k} |-> IF x \in DOMAIN o THEN o[x] ELSE v]

\* o[k] = v on a plain object: adds the key or overwrites its value
SetProperty(o, k, v) ==
  [x \in (DOMAIN o) \cup {k} |-> IF x = k THEN v ELSE o[x]]

EmptyObject == [x \in {} |-> Undefined]

\* Array.prototype.includes on an array of strings
Includes(arr, s) == \E i \in 1..Len(arr) : arr[i] = s

\* the template literal `${rpcNamespace}_${endpointName}`
MethodName(rpcNamespace, endpointName) == rpcNamespace \o "_" \o endpointName


\* ------------------------------------------------------ createRpcMethods
\* the arrow function object created at line 67 by one pass of the inner loop;
\* it closes over that pass's bindings of rpcNamespace and endpointName
ArrowFunction(rpcNamespace, endpointName, pass) ==
  [rpcNamespace |-> rpcNamespace, endpointName |-> endpointName, pass |-> pass]

\* variant: the supported check is missing, every catalog endpoint gets a callable
RECURSIVE EndpointLoopNoFilter(_, _, _, _, _)
EndpointLoopNoFilter(supported, rpcNamespace, endpointNames, i, endPoints) ==
  IF i > Len(endpointNames) THEN endPoints
  ELSE EndpointLoopNoFilter(supported, rpcNamespace, endpointNames, i + 1,
         SetProperty(endPoints, endpointNames[i],
           ArrowFunction(rpcNamespace, endpointNames[i], i)))

\* variant: `break` where the code has `continue`
RECURSIVE EndpointLoopBreak(_, _, _, _, _)
EndpointLoopBreak(supported, rpcNamespace, endpointNames, i, endPoints) ==
  IF i > Len(endpointNames) THEN endPoints
  ELSE LET endpointName == endpointNames[i] IN
    IF ~Includes(supported, MethodName(rpcNamespace, endpointName))
    THEN endPoints
    ELSE EndpointLoopBreak(supported, rpcNamespace, endpointNames, i + 1,
                           SetProperty(endPoints, endpointName,
                             ArrowFunction(rpcNamespace, endpointName, i)))

\* variant: `for (var endpointName ...)`, one binding shared by all passes, so
\* every arrow function sees the value the loop ended with
RECURSIVE EndpointLoopVar(_, _, _, _, _)
EndpointLoopVar(supported, rpcNamespace, endpointNames, i, endPoints) ==
  IF i > Len(endpointNames) THEN endPoints
  ELSE LET endpointName == endpointNames[i] IN
    IF ~Includes(supported, MethodName(rpcNamespace, endpointName))
    THEN EndpointLoopVar(supported, rpcNamespace, endpointNames, i + 1,
                         endPoints)
    ELSE EndpointLoopVar(supported, rpcNamespace, endpointNames, i + 1,
                         SetProperty(endPoints, endpointName,
                           ArrowFunction(rpcNamespace,
                             endpointNames[Len(endpointNames)], i)))

\* for (let endpointName of endpointNames) { ... }, from element i on
RECURSIVE EndpointLoop(_, _, _, _, _)
EndpointLoop(supported, rpcNamespace, endpointNames, i, endPoints) ==
  IF i > Len(endpointNames) THEN endPoints
  ELSE LET endpointName == endpointNames[i] IN
    IF ~Includes(supported, MethodName(rpcNamespace, endpointName))
    THEN EndpointLoop(supported, rpcNamespace, endpointNames, i + 1,
                      endPoints)
    ELSE EndpointLoop(supported, rpcNamespace, endpointNames, i + 1,
                      SetProperty(endPoints, endpointName,
                        ArrowFunction(rpcNamespace, endpointName, i)))

\* variant: a namespace is stored only when it got at least one callable
RECURSIVE NamespaceLoopSkipEmpty(_, _, _, _, _)
NamespaceLoopSkipEmpty(rpcList, supported, objectKeys, k, returnedRpcMethods) ==
  IF k > Len(objectKeys) THEN returnedRpcMethods
  ELSE LET rpcNamespace == objectKeys[k]
           endPoints == EndpointLoop(supported, rpcNamespace,
                                     rpcList[rpcNamespace], 1, EmptyObject)
       IN NamespaceLoopSkipEmpty(rpcList, supported, objectKeys, k + 1,
            IF DOMAIN endPoints = {} THEN returnedRpcMethods
            ELSE SetProperty(returnedRpcMethods, rpcNamespace, endPoints))

\* for (let rpcNamespace of objectKeys) { ... }, from element k on
RECURSIVE NamespaceLoop(_, _, _, _, _)
NamespaceLoop(rpcList, supported, objectKeys, k, returnedRpcMethods) ==
  IF k > Len(objectKeys) THEN returnedRpcMethods
  ELSE LET rpcNamespace == objectKeys[k]
           endPoints == EndpointLoop(supported, rpcNamespace,
                                     rpcList[rpcNamespace], 1, EmptyObject)
       IN NamespaceLoop(rpcList, supported, objectKeys, k + 1,
                        SetProperty(returnedRpcMethods, rpcNamespace, endPoints))

createRpcMethods(rpcList, supported) ==
  NamespaceLoop(rpcList, supported, ObjectKeys(rpcList), 1, EmptyObject)

\* ------------------------------------------------------------ invocation
\* this.requestManager.send(request): the collaborator records the request
\* and answers with a fresh pending promise; its later settlement touches no
\* state of the plugin and is left out, so every request stays pending
send(log, request) ==
  [log |-> Append(log, [request |-> request,
                        promise |-> Promise(Len(log) + 1)]),
   result |-> Promise(Len(log) + 1)]

\* (args) => this.requestManager.send({ method: ..., params: [args] })
CallArrow(log, f, args) ==
  LET r == send(log,
                [method |-> MethodName(f.rpcNamespace, f.endpointName),
                 params |-> <<args>>])
  IN [log |-> r.log, returned |-> r.result]


\* variant: every table is built with the Polkadot supported list
ConstructorStepOneList ==
  /\ pc < Len(NetworkOrder)
  /\ LET network == NetworkOrder[pc + 1] IN
       table' = [table EXCEPT ![network] =
                   createRpcMethods(RpcList[network],
                                    SupportedRpcMethods["polkadot"])]
  /\ pc' = pc + 1
  /\ UNCHANGED <<RpcList, SupportedRpcMethods, sent, invoked>>
  /\ UNCHANGED loginVars

\* variant: the arrow is missing, endPoints[endpointName] = send(...) runs while
\* the table is built (shown for one supported endpoint of the network)
ConstructorStepEager ==
  /\ pc < Len(NetworkOrder)
  /\ LET network == NetworkOrder[pc + 1]
         built == createRpcMethods(RpcList[network],
                                   SupportedRpcMethods[network])
         full == {n \in DOMAIN built : DOMAIN built[n] # {}}
     IN /\ table' = [table EXCEPT ![network] = built]
        /\ IF full = {} \/ Len(sent) >= MaxCalls
           THEN UNCHANGED sent
           ELSE LET n == CHOOSE x \in full : TRUE
                    e == CHOOSE x \in DOMAIN built[n] : TRUE
                IN sent' = CallArrow(sent, built[n][e], Undefined).log
  /\ pc' = pc + 1
  /\ UNCHANGED <<RpcList, SupportedRpcMethods, invoked>>
  /\ UNCHANGED loginVars

\* one assignment of the constructor: this.<network> = this.createRpcMethods(..)
ConstructorStep ==
  /\ pc < Len(NetworkOrder)
  /\ LET network == NetworkOrder[pc + 1] IN
       table' = [table EXCEPT ![network] =
                   createRpcMethods(RpcList[network],
                                    SupportedRpcMethods[network])]
  /\ pc' = pc + 1
  /\ UNCHANGED <<RpcList, SupportedRpcMethods, sent, invoked>>
  /\ UNCHANGED loginVars

\* variant: a callable removes itself from its table when invoked
InvokeOnce(network, rpcNamespace, endpointName, args) ==
  /\ pc = Len(NetworkOrder)
  /\ Len(sent) < MaxCalls
  /\ rpcNamespace \in DOMAIN table[network]
  /\ endpointName \in DOMAIN table[network][rpcNamespace]
  /\ LET r == CallArrow(sent, table[network][rpcNamespace][endpointName],
                        args)
     IN /\ sent' = r.log
        /\ invoked' = Append(invoked,
                         [network |-> network,
                          rpcNamespace |-> rpcNamespace,
                          endpointName |-> endpointName,
                          args |-> args, returned |-> r.returned])
  /\ table' = [table EXCEPT ![network][rpcNamespace] =
                 [x \in (DOMAIN @) \ {endpointName} |-> @[x]]]
  /\ UNCHANGED <<RpcList, SupportedRpcMethods, pc>>
  /\ UNCHANGED loginVars

\* plugin.<network>.<rpcNamespace>.<endpointName>(args); the constructor is
\* synchronous, so callers hold the plugin only once it has returned
Invoke(network, rpcNamespace, endpointName, args) ==
  /\ pc = Len(NetworkOrder)
  /\ Len(sent) < MaxCalls
  /\ rpcNamespace \in DOMAIN table[network]
  /\ endpointName \in DOMAIN table[network][rpcNamespace]
  /\ LET r == CallArrow(sent, table[network][rpcNamespace][endpointName],
                        args)
     IN /\ sent' = r.log
        /\ invoked' = Append(invoked,
                         [network |-> network,
                          rpcNamespace |-> rpcNamespace,
                          endpointName |-> endpointName,
                          args |-> args, returned |-> r.returned])
  /\ UNCHANGED <<RpcList, SupportedRpcMethods, pc, table>>
  /\ UNCHANGED loginVars

\* ------------------------------------------------------------ isLoggedIn
ACCOUNT == "account"
StorageKeys == {ACCOUNT, "theme"}
Addresses == {"0xABC", "0xDEF"}
\* account objects handed to isLoggedIn; address may be missing at run time
Accounts == {[address |-> Str(a)] : a \in Addresses} \cup {[address |-> Undefined]}

\* localStorage[key]: the stored string, or undefined when nothing is stored
StorageGet(store, key) ==
  IF key \in DOMAIN store THEN Str(store[key]) ELSE Undefined

\* ({ address }) => localStorage[LOCAL_STORAGE.ACCOUNT] === address
isLoggedIn(store, account) == StorageGet(store, ACCOUNT) = account.address

SetItem(key, value) ==
  /\ localStorage' = SetProperty(localStorage, key, value)
  /\ UNCHANGED lastLogin
  /\ UNCHANGED pluginVars

RemoveItem(key) ==
  /\ key \in DOMAIN localStorage
  /\ localStorage' = [x \in (DOMAIN localStorage) \ {key} |-> localStorage[x]]
  /\ UNCHANGED lastLogin
  /\ UNCHANGED pluginVars

CheckLogin(account) ==
  /\ lastLogin' = <<[account |-> account,
                     stored |-> StorageGet(localStorage, ACCOUNT),
                     result |-> isLoggedIn(localStorage, account)]>>
  /\ UNCHANGED localStorage
  /\ UNCHANGED pluginVars

\* --------------------------------------------------------- initial states
RECURSIVE SeqsUpTo(_, _)
SeqsUpTo(S, n) ==
  IF n = 0 THEN {<<>>}
  ELSE LET shorter == SeqsUpTo(S, n - 1)
       IN shorter \cup {Append(q, x) : q \in shorter, x \in S}

Catalogs ==
  UNION {[D -> SeqsUpTo(EndpointNames, MaxLen)] : D \in SUBSET Namespaces}

Identifiers ==
  {MethodName(n, e) : n \in Namespaces, e \in EndpointNames}
    \cup {"author_submitExtrinsic"}

SupportedLists == {SetToSeq(S) : S \in SUBSET Identifiers}

\* the lists of networks as they differ between chains
NetworkCatalogs ==
  {[chain |-> <<"getBlock", "getBlockHash">>],
   [chain |-> <<"getBlock">>, state |-> <<"getBlock">>]}
NetworkSupported ==
  {<<"chain_getBlock">>, <<"chain_getBlockHash", "state_getBlock">>}

InitPluginRest ==
  /\ pc = 0
  /\ table = [n \in Networks |-> NoTable]
  /\ sent = <<>>
  /\ invoked = <<>>

InitLogin ==
  /\ localStorage = EmptyObject
  /\ lastLogin = <<>>

\* one network with arbitrary lists, the other two with empty ones
InitAnyLists ==
  \E C \in Catalogs, S \in SupportedLists :
    /\ RpcList = [n \in Networks |-> IF n = "polkadot" THEN C ELSE EmptyObject]
    /\ SupportedRpcMethods =
         [n \in Networks |-> IF n = "polkadot" THEN S ELSE <<>>]

\* three networks, each with its own lists
InitNetworkLists ==
  /\ RpcList \in [Networks -> NetworkCatalogs]
  /\ SupportedRpcMethods \in [Networks -> NetworkSupported]

Init ==
  /\ InitAnyLists \/ InitNetworkLists
  /\ InitPluginRest
  /\ InitLogin

Next ==
  \/ ConstructorStep
  \/ \E network \in Networks, rpcNamespace \in Namespaces,
        endpointName \in EndpointNames, args \in Args :
       Invoke(network, rpcNamespace, endpointName, args)

Spec == Init /\ [][Next]_vars

InitLoginSpec ==
  /\ RpcList = [n \in Networks |-> [chain |-> <<"getBlock", "getBlockHash">>]]
  /\ SupportedRpcMethods = [n \in Networks |-> <<"chain_getBlock">>]
  /\ InitPluginRest
  /\ InitLogin

NextLogin ==
  \/ \E key \in StorageKeys, value \in Addresses \cup {"undefined"} :
       SetItem(key, value)
  \/ \E key \in StorageKeys : RemoveItem(key)
  \/ \E account \in Accounts : CheckLogin(account)

SpecLogin == InitLoginSpec /\ [][NextLogin]_vars

\* ------------------------------------------------------------ properties
Range(q) == {q[i] : i \in 1..Len(q)}
\* the networks whose field the constructor has assigned
Built == {NetworkOrder[i] : i \in 1..pc}
Constructed == pc = Len(NetworkOrder)
Occurrences(q, x) == {i \in 1..Len(q) : q[i] = x}
\* what invoking the arrow function f with args hands to the collaborator
Forwarded(f, args) == CallArrow(<<>>, f, args).log[1].request

\* C1: every endpoint present under a namespace of a built table is an
\* element of the catalog's sequence for that namespace and its identifier
\* "<namespace>_<endpoint>" is in the supported list the table was built with.
C1_PresentImpliesSupported ==
  \A n \in Built : \A N \in DOMAIN table[n] : \A e \in DOMAIN table[n][N] :
    /\ N \in DOMAIN RpcList[n]
    /\ e \in Range(RpcList[n][N])
    /\ Includes(SupportedRpcMethods[n], MethodName(N, e))

\* a built namespace holds one endpoint while another endpoint of its catalog
\* sequence, not supported, is left out
C1_Witness ==
  \E n \in Built : \E N \in DOMAIN table[n] :
    /\ DOMAIN table[n][N] # {}
    /\ \E e \in Range(RpcList[n][N]) :
         /\ e \notin DOMAIN table[n][N]
         /\ ~Includes(SupportedRpcMethods[n], MethodName(N, e))

\* C2: under every namespace of a built table the endpoint key set is exactly
\* the set of catalog endpoints of that namespace whose identifier is supported.
C2_KeysAreTheSupportedEndpoints ==
  \A n \in Built : \A N \in DOMAIN RpcList[n] :
    /\ N \in DOMAIN table[n]
    /\ DOMAIN table[n][N] =
         {e \in Range(RpcList[n][N]) :
            Includes(SupportedRpcMethods[n], MethodName(N, e))}

\* catalog {chain: [getBlock, getBlockHash]} with supported [chain_getBlock]
\* has been built into {chain: {getBlock}}
C2_Witness ==
  \E n \in Built :
    /\ RpcList[n] = [chain |-> <<"getBlock", "getBlockHash">>]
    /\ SupportedRpcMethods[n] = <<"chain_getBlock">>
    /\ DOMAIN table[n] = {"chain"}
    /\ DOMAIN table[n]["chain"] = {"getBlock"}

\* C3: every invocation of a built callable sends exactly one request, whose
\* method is the identifier of the callable's own namespace and endpoint and
\* whose params is the one-element array of the argument, and it returns what
\* the collaborator returned.
C3_ForwardsOwnIdentifier ==
  /\ Len(sent) = Len(invoked)
  /\ \A i \in 1..Len(invoked) :
       /\ i <= Len(sent)
       /\ sent[i].request =
            [method |-> MethodName(invoked[i].rpcNamespace,
                                   invoked[i].endpointName),
             params |-> <<invoked[i].args>>]
       /\ invoked[i].returned = sent[i].promise

\* chain.getBlock("0xhash") was invoked on a table that also holds
\* chain.getBlockHash, built by a later pass of the same loop
C3_Witness ==
  \E i \in 1..Len(invoked) :
    /\ invoked[i].rpcNamespace = "chain"
    /\ invoked[i].endpointName = "getBlock"
    /\ invoked[i].args = Str("0xhash")
    /\ sent[i].request = [method |-> "chain_getBlock",
                          params |-> <<Str("0xhash")>>]
    /\ "getBlockHash" \in DOMAIN table[invoked[i].network]["chain"]
    /\ table[invoked[i].network]["chain"]["getBlockHash"].pass >
         table[invoked[i].network]["chain"]["getBlock"].pass

\* C4: every request that reached the collaborator names a method of the
\* supported list of the network whose table the invoked callable came from.
C4_OnlySupportedMethodsSent ==
  \A i \in 1..Len(sent) :
    /\ i <= Len(invoked)
    /\ Includes(SupportedRpcMethods[invoked[i].network], sent[i].request.method)

\* calls went through the tables of two networks, and the method sent for
\* each is not in the other network's supported list
C4_Witness ==
  \E i, j \in 1..Len(sent) :
    /\ invoked[i].network # invoked[j].network
    /\ ~Includes(SupportedRpcMethods[invoked[j].network], sent[i].request.method)
    /\ ~Includes(SupportedRpcMethods[invoked[i].network], sent[j].request.method)

\* C5: the namespace keys of a built table are exactly the keys of its
\* catalog, also for namespaces that got no callable.
C5_NamespaceKeysAreCatalogKeys ==
  \A n \in Built : DOMAIN table[n] = DOMAIN RpcList[n]

\* a built table holds a namespace with an empty endpoint sequence and another
\* whose endpoints are all unsupported, both with an empty inner mapping
C5_Witness ==
  \E n \in Built : \E N, M \in DOMAIN table[n] :
    /\ RpcList[n][N] = <<>>
    /\ RpcList[n][M] # <<>>
    /\ DOMAIN table[n][N] = {}
    /\ DOMAIN table[n][M] = {}

\* C6: while the constructor has not assigned all three tables no request has
\* been sent; the request log grows only by an invocation of a built callable,
\* and by exactly one request per invocation.
C6_ConstructionSendsNothing ==
  /\ [](~Constructed => sent = <<>> /\ invoked = <<>>)
  /\ [][(sent' # sent \/ invoked' # invoked) =>
          /\ Constructed
          /\ Len(sent') = Len(sent) + 1
          /\ Len(invoked') = Len(invoked) + 1
          /\ SubSeq(sent', 1, Len(sent)) = sent
          /\ invoked'[Len(invoked')].endpointName \in
               DOMAIN table[invoked'[Len(invoked')].network]
                           [invoked'[Len(invoked')].rpcNamespace]]_vars

\* the constructor has built callables for two networks, is about to build the
\* third, and nothing has been sent
C6_Witness ==
  /\ pc = 2
  /\ \A n \in Built : \E N \in DOMAIN table[n] : DOMAIN table[n][N] # {}
  /\ sent = <<>>

\* C9: once the constructor has returned, no step changes a table: namespace
\* keys, endpoint keys and the bindings each callable forwards stay as built.
C9_TablesReadOnly ==
  [][Constructed =>
       /\ table' = table
       /\ \A n \in Networks : \A N \in DOMAIN table[n] :
            \A e \in DOMAIN table[n][N] : \A a \in Args :
              Forwarded(table'[n][N][e], a) = Forwarded(table[n][N][e], a)]_vars

\* the same callable was invoked a second time while the request of its
\* first invocation was still pending
C9_Witness ==
  /\ Len(invoked) = 2
  /\ invoked[1].network = invoked[2].network
  /\ invoked[1].rpcNamespace = invoked[2].rpcNamespace
  /\ invoked[1].endpointName = invoked[2].endpointName
  /\ sent[1].promise # sent[2].promise

\* C10: when an endpoint occurs more than once in a namespace's sequence and
\* its identifier is supported, the built table holds it under that namespace,
\* the entry is the one written by the last occurrence, and it forwards the
\* same request as the entry built from a sequence holding the endpoint once.
C10_DuplicatesLastWriteWins ==
  \A n \in Built : \A N \in DOMAIN RpcList[n] : \A e \in Range(RpcList[n][N]) :
    (/\ Cardinality(Occurrences(RpcList[n][N], e)) > 1
     /\ Includes(SupportedRpcMethods[n], MethodName(N, e)))
    => /\ N \in DOMAIN table[n]
       /\ e \in DOMAIN table[n][N]
       /\ \A i \in Occurrences(RpcList[n][N], e) : i <= table[n][N][e].pass
       /\ table[n][N][e].pass \in Occurrences(RpcList[n][N], e)
       /\ \A a \in Args :
            /\ Forwarded(table[n][N][e], a) =
                 [method |-> MethodName(N, e), params |-> <<a>>]
            /\ Forwarded(table[n][N][e], a) =
                 Forwarded(createRpcMethods([x \in {N} |-> <<e>>],
                             SupportedRpcMethods[n])[N][e], a)

\* a table was built from a sequence naming a supported endpoint twice
C10_Witness ==
  \E n \in Built : \E N \in DOMAIN RpcList[n] : \E e \in Range(RpcList[n][N]) :
    /\ Cardinality(Occurrences(RpcList[n][N], e)) > 1
    /\ Includes(SupportedRpcMethods[n], MethodName(N, e))
    /\ e \in DOMAIN table[n][N]
    /\ table[n][N][e].pass > 1

\* C8: isLoggedIn returns true exactly when a value is stored under the
\* account key and equals account.address; with nothing stored, or with no
\* address, it returns false.
C8_TrueOnlyForStoredAddress ==
  \A i \in 1..Len(lastLogin) :
    lastLogin[i].result <=>
       /\ lastLogin[i].stored # Undefined
       /\ lastLogin[i].account.address # Undefined
       /\ lastLogin[i].stored = lastLogin[i].account.address

====
